---- MODULE Spec2Model ----
(***************************************************************************)
(* Model of utils/dataset.py of CRIS4MIS: the tokenizer adapter tokenize,  *)
(* the keep-aspect-ratio transform getTransformMat, and the two datasets   *)
(* RefDataset (LMDB backed, opened lazily) and EndoVisDataset (manifest    *)
(* backed).                                                                *)
(*                                                                         *)
(* Numbers.  Python floats are IEEE-754 binary64 and np.float32 is         *)
(* binary32.  A float is modelled exactly, as a dyadic number              *)
(* (+/-) man * 2^exp whose mantissa is an arbitrary-precision natural (a   *)
(* sequence of limbs, least significant first); every arithmetic           *)
(* operation of the code is the exact operation followed by rounding to    *)
(* nearest, ties to even, at 53 or 24 significant bits.  Exponent range    *)
(* (overflow, subnormals) is not modelled: no value of the model comes     *)
(* near it.                                                                *)
(***************************************************************************)
EXTENDS Integers, Sequences, FiniteSets, TLC

(***************************************************************************)
(* Arbitrary-precision naturals: sequences of limbs in base Base, least    *)
(* significant limb first, no zero limb at the top; zero is << >>.         *)
(***************************************************************************)
LimbBits == 6 + 6
Base == 2 ^ LimbBits

Limb(a, i) == IF i <= Len(a) THEN a[i] ELSE 0

RECURSIVE BTrim(_)
BTrim(a) ==
  IF a = << >> THEN a
  ELSE IF a[Len(a)] = 0 THEN BTrim(SubSeq(a, 1, Len(a) - 1)) ELSE a

RECURSIVE BFromNat(_)
BFromNat(n) == IF n = 0 THEN << >> ELSE <<n % Base>> \o BFromNat(n \div Base)

RECURSIVE BAddC(_, _, _, _)
BAddC(a, b, i, c) ==
  IF i > Len(a) /\ i > Len(b) THEN (IF c = 0 THEN << >> ELSE <<c>>)
  ELSE LET s == Limb(a, i) + Limb(b, i) + c
       IN  <<s % Base>> \o BAddC(a, b, i + 1, s \div Base)

BAdd(a, b) == BAddC(a, b, 1, 0)

\* a - b for a >= b
RECURSIVE BSubC(_, _, _, _)
BSubC(a, b, i, c) ==
  IF i > Len(a) THEN << >>
  ELSE LET s == a[i] - Limb(b, i) - c
       IN  IF s < 0 THEN <<s + Base>> \o BSubC(a, b, i + 1, 1)
           ELSE <<s>> \o BSubC(a, b, i + 1, 0)

BSub(a, b) == BTrim(BSubC(a, b, 1, 0))

RECURSIVE BCmpAt(_, _, _)
BCmpAt(a, b, i) ==
  IF i = 0 THEN 0
  ELSE IF a[i] > b[i] THEN 1
  ELSE IF a[i] < b[i] THEN -1
  ELSE BCmpAt(a, b, i - 1)

\* -1, 0, 1 as a < b, a = b, a > b
BCmp(a, b) ==
  IF Len(a) > Len(b) THEN 1
  ELSE IF Len(a) < Len(b) THEN -1
  ELSE BCmpAt(a, b, Len(a))

\* a * k for a limb-sized k
RECURSIVE BMulLimbC(_, _, _, _)
BMulLimbC(a, k, i, c) ==
  IF i > Len(a) THEN (IF c = 0 THEN << >> ELSE <<c>>)
  ELSE LET s == a[i] * k + c
       IN  <<s % Base>> \o BMulLimbC(a, k, i + 1, s \div Base)

BMulLimb(a, k) == IF k = 0 THEN << >> ELSE BMulLimbC(a, k, 1, 0)

BShiftLimbs(a, n) == IF a = << >> THEN a ELSE [i \in 1..n |-> 0] \o a

RECURSIVE BMulAt(_, _, _)
BMulAt(a, b, j) ==
  IF j > Len(b) THEN << >>
  ELSE BAdd(BShiftLimbs(BMulLimb(a, b[j]), j - 1), BMulAt(a, b, j + 1))

BMul(a, b) == BMulAt(a, b, 1)

\* floor(a / k) for a limb-sized k > 0 (from the top limb down)
RECURSIVE BDivLimbC(_, _, _, _)
BDivLimbC(a, k, i, r) ==
  IF i = 0 THEN << >>
  ELSE LET t == r * Base + a[i]
       IN  BDivLimbC(a, k, i - 1, t % k) \o <<t \div k>>

BDivLimb(a, k) == BTrim(BDivLimbC(a, k, Len(a), 0))

\* a * 2^n and floor(a / 2^n)
BShl(a, n) == BShiftLimbs(BMulLimb(a, 2 ^ (n % LimbBits)), n \div LimbBits)

BShr(a, n) ==
  IF n \div LimbBits >= Len(a) THEN << >>
  ELSE BDivLimb(SubSeq(a, (n \div LimbBits) + 1, Len(a)), 2 ^ (n % LimbBits))

RECURSIVE NatBitLen(_)
NatBitLen(n) == IF n = 0 THEN 0 ELSE 1 + NatBitLen(n \div 2)

BBitLen(a) ==
  IF a = << >> THEN 0 ELSE (Len(a) - 1) * LimbBits + NatBitLen(a[Len(a)])

RECURSIVE NatTrailingZeros(_)
NatTrailingZeros(n) == IF n % 2 = 1 THEN 0 ELSE 1 + NatTrailingZeros(n \div 2)

\* number of zero bits below the lowest set bit of a /= 0
RECURSIVE BTrailingZerosAt(_, _)
BTrailingZerosAt(a, i) ==
  IF a[i] = 0 THEN LimbBits + BTrailingZerosAt(a, i + 1)
  ELSE NatTrailingZeros(a[i])

BTrailingZeros(a) == BTrailingZerosAt(a, 1)

BIsOdd(a) == a /= << >> /\ a[1] % 2 = 1

\* the largest t in lo..hi with d * t <= r
RECURSIVE QuotDigit(_, _, _, _)
QuotDigit(r, d, lo, hi) ==
  IF lo = hi THEN lo
  ELSE LET mid == (lo + hi + 1) \div 2
       IN  IF BCmp(BMulLimb(d, mid), r) <= 0 THEN QuotDigit(r, d, mid, hi)
           ELSE QuotDigit(r, d, lo, mid - 1)

\* floor(n / d) for d > 0: long division in base Base, from the top limb of n
\* down; r is the remainder carried from the limbs above i, r2 = r * Base +
\* n[i] and t the quotient limb
RECURSIVE BDivAt(_, _, _, _)
BDivStep(n, d, i, r2, t) ==
  BDivAt(n, d, i - 1, BSub(r2, BMulLimb(d, t))) \o <<t>>

BDivLimbAt(n, d, i, r2) == BDivStep(n, d, i, r2, QuotDigit(r2, d, 0, Base - 1))

BDivAt(n, d, i, r) ==
  IF i = 0 THEN << >> ELSE BDivLimbAt(n, d, i, BTrim(<<n[i]>> \o r))

BDiv(n, d) == BTrim(BDivAt(n, d, Len(n), << >>))

(***************************************************************************)
(* Floats: exact dyadic numbers [neg, man, exp] = (+/-) man * 2^exp, kept  *)
(* canonical (man odd, or zero); Round rounds to p significant bits, to    *)
(* nearest, ties to even, as IEEE-754 arithmetic does after every          *)
(* operation.                                                              *)
(***************************************************************************)
FloatPrec == 53
Float32Prec == 24

Zero == [neg |-> FALSE, man |-> << >>, exp |-> 0]

DyadicShifted(neg, man, exp, tz) ==
  [neg |-> neg, man |-> BShr(man, tz), exp |-> exp + tz]

Dyadic(neg, man, exp) ==
  IF man = << >> THEN Zero
  ELSE DyadicShifted(neg, man, exp, BTrailingZeros(man))

FromInt(n) == Dyadic(n < 0, BFromNat(IF n < 0 THEN -n ELSE n), 0)

DNeg(x) == IF x.man = << >> THEN x ELSE [x EXCEPT !.neg = ~x.neg]

\* a and b are the mantissas of x and y at the common exponent e
DAddAligned(x, y, e, a, b) ==
  IF x.neg = y.neg THEN Dyadic(x.neg, BAdd(a, b), e)
  ELSE IF BCmp(a, b) >= 0 THEN Dyadic(x.neg, BSub(a, b), e)
  ELSE Dyadic(y.neg, BSub(b, a), e)

DAddAt(x, y, e) == DAddAligned(x, y, e, BShl(x.man, x.exp - e), BShl(y.man, y.exp - e))

DAdd(x, y) == DAddAt(x, y, IF x.exp < y.exp THEN x.exp ELSE y.exp)

DSub(x, y) == DAdd(x, DNeg(y))

DMul(x, y) == Dyadic(x.neg /= y.neg, BMul(x.man, y.man), x.exp + y.exp)

DSign(x) == IF x.man = << >> THEN 0 ELSE IF x.neg THEN -1 ELSE 1

DAbs(x) == [x EXCEPT !.neg = FALSE]

DLe(x, y) == DSign(DSub(x, y)) <= 0

DLt(x, y) == DSign(DSub(x, y)) < 0

\* x * 2^n
DScale(x, n) == IF x.man = << >> THEN x ELSE [x EXCEPT !.exp = x.exp + n]

\* x with the low k bits of its mantissa dropped: q is the mantissa without
\* them, c compares the dropped bits with half a unit of q
RoundPick(x, k, q, c) ==
  Dyadic(x.neg,
         IF c > 0 \/ (c = 0 /\ BIsOdd(q)) THEN BAdd(q, <<1>>) ELSE q,
         x.exp + k)

RoundDrop(x, k, q) ==
  RoundPick(x, k, q, BCmp(BSub(x.man, BShl(q, k)), BShl(<<1>>, k - 1)))

RoundBits(x, k) == RoundDrop(x, k, BShr(x.man, k))

Round(p, x) ==
  IF BBitLen(x.man) <= p THEN x ELSE RoundBits(x, BBitLen(x.man) - p)

\* x / y (y /= 0) rounded to p bits: the quotient q of x.man * 2^k by y.man
\* has p + 2 bits or more, and a sticky bit below it records a remainder
DivSticky(n, d, q) ==
  BAdd(BAdd(q, q), IF BMul(q, d) = n THEN << >> ELSE <<1>>)

DivMantissa(n, d) == DivSticky(n, d, BDiv(n, d))

DivAt(p, x, y, k) ==
  Round(p, Dyadic(x.neg /= y.neg, DivMantissa(BShl(x.man, k), y.man),
                  x.exp - y.exp - k - 1))

DivShift(d) == IF d > 0 THEN d ELSE 0

DivRound(p, x, y) ==
  IF x.man = << >> THEN Zero
  ELSE DivAt(p, x, y, DivShift(p + 2 + BBitLen(y.man) - BBitLen(x.man)))

\* the arithmetic of Python floats (binary64) and the cast to np.float32
F64(x) == Round(FloatPrec, x)
F32(x) == Round(Float32Prec, x)
FAdd(x, y) == F64(DAdd(x, y))
FSub(x, y) == F64(DSub(x, y))
FMul(x, y) == F64(DMul(x, y))
FDiv(x, y) == DivRound(FloatPrec, x, y)
FMin(x, y) == IF DLt(y, x) THEN y ELSE x


(***************************************************************************)
(* Geometric transform engine.                                             *)
(***************************************************************************)
None == << >>

\* cv2.getAffineTransform(src, dst): the 2x3 matrix M (rows <<a, b, c>>) with
\* M * (x, y, 1) = dst[i] for the three points (x, y) = src[i], returned as a
\* matrix of binary64 entries; OpenCV's solver answers a singular system
\* (collinear source points) with the zero matrix.
AffineCoeffs(p0, q0, det, an, bn) ==
  <<DivRound(FloatPrec, an, det), DivRound(FloatPrec, bn, det),
    DivRound(FloatPrec,
             DSub(DSub(DMul(q0, det), DMul(an, p0[1])), DMul(bn, p0[2])),
             det)>>

\* u = src[2] - src[1], v = src[3] - src[1]; d1, d2 the same differences of
\* the dst coordinate at hand, q0 that coordinate of dst[1]
AffineRowOf(p0, q0, d1, d2, ux, uy, vx, vy, det) ==
  AffineCoeffs(p0, q0, det, DSub(DMul(d1, vy), DMul(d2, uy)),
               DSub(DMul(d2, ux), DMul(d1, vx)))

AffineRow(src, dst, r, det) ==
  AffineRowOf(src[1], dst[1][r],
              DSub(dst[2][r], dst[1][r]), DSub(dst[3][r], dst[1][r]),
              DSub(src[2][1], src[1][1]), DSub(src[2][2], src[1][2]),
              DSub(src[3][1], src[1][1]), DSub(src[3][2], src[1][2]), det)

AffineDet(src) ==
  DSub(DMul(DSub(src[2][1], src[1][1]), DSub(src[3][2], src[1][2])),
       DMul(DSub(src[3][1], src[1][1]), DSub(src[2][2], src[1][2])))

AffineSolve(src, dst, det) ==
  IF DSign(det) = 0 THEN <<<<Zero, Zero, Zero>>, <<Zero, Zero, Zero>>>>
  ELSE <<AffineRow(src, dst, 1, det), AffineRow(src, dst, 2, det)>>

getAffineTransform(src, dst) == AffineSolve(src, dst, AffineDet(src))

\* lines 196-204 of getTransformMat, last line first: the locals, in Python
\* float arithmetic, and the two point triples cast to np.float32
\* lines 202-204
Points(ori_h, ori_w, scale, new_h, new_w, bias_x, bias_y) ==
  [scale |-> scale, new_h |-> new_h, new_w |-> new_w,
   bias_x |-> bias_x, bias_y |-> bias_y,
   src |-> <<<<Zero, Zero>>, <<F32(ori_w), Zero>>, <<Zero, F32(ori_h)>>>>,
   dst |-> <<<<F32(bias_x), F32(bias_y)>>,
             <<F32(FAdd(new_w, bias_x)), F32(bias_y)>>,
             <<F32(bias_x), F32(FAdd(new_h, bias_y))>>>>]

\* a faulty variant of line 200: the padding not halved
BiasedWhole(ori_h, ori_w, inp_h, inp_w, scale, new_h, new_w) ==
  Points(ori_h, ori_w, scale, new_h, new_w,
         FSub(inp_w, new_w), FSub(inp_h, new_h))

\* line 200
Biased(ori_h, ori_w, inp_h, inp_w, scale, new_h, new_w) ==
  Points(ori_h, ori_w, scale, new_h, new_w,
         FDiv(FSub(inp_w, new_w), FromInt(2)),
         FDiv(FSub(inp_h, new_h), FromInt(2)))

\* line 199
Scaled(ori_h, ori_w, inp_h, inp_w, scale) ==
  Biased(ori_h, ori_w, inp_h, inp_w, scale,
         FMul(ori_h, scale), FMul(ori_w, scale))

\* line 198
Unpacked(ori_h, ori_w, inp_h, inp_w) ==
  Scaled(ori_h, ori_w, inp_h, inp_w,
         FMin(FDiv(inp_h, ori_h), FDiv(inp_w, ori_w)))

TransformLocals(img_size, input_size) ==
  Unpacked(FromInt(img_size[1]), FromInt(img_size[2]),
           FromInt(input_size[1]), FromInt(input_size[2]))

\* lines 206-210
Mats(l, inverse) ==
  <<getAffineTransform(l.src, l.dst),
    IF inverse THEN getAffineTransform(l.dst, l.src) ELSE None>>

\* RefDataset.getTransformMat and EndoVisDataset.getTransformMat (the same
\* text): the pair (mat, mat_inv), mat_inv None unless inverse
getTransformMat(img_size, input_size, inverse) ==
  Mats(TransformLocals(img_size, input_size), inverse)

\* the image of point p = <<x, y>> under the 2x3 matrix m, in exact arithmetic
Apply(m, p) ==
  <<DAdd(DAdd(DMul(m[1][1], p[1]), DMul(m[1][2], p[2])), m[1][3]),
    DAdd(DAdd(DMul(m[2][1], p[1]), DMul(m[2][2], p[2])), m[2][3])>>


(***************************************************************************)
(* Tokenizer adapter.  A text is a sequence of words 1..NumWords; the      *)
(* external tokenizer's encode maps it to a sequence of integer ids (id 0  *)
(* is an ordinary vocabulary entry).                                       *)
(***************************************************************************)
NumWords == 2
MaxTextLen == 2
MaxTexts == 2
MaxCtx == 4

sot_token == 49406
eot_token == 49407

TokenOf(w) == (w - 1) * 256

Encode(text) == [i \in 1..Len(text) |-> TokenOf(text[i])]

RECURSIVE SeqsUpTo(_, _)
SeqsUpTo(S, n) ==
  IF n = 0 THEN {<< >>}
  ELSE LET shorter == SeqsUpTo(S, n - 1)
       IN  shorter \cup {Append(q, e) : q \in shorter, e \in S}

Texts == SeqsUpTo(1..NumWords, MaxTextLen)

\* the argument of tokenize: one string, or a list of strings
TextArgs ==
  [str : {TRUE}, val : Texts] \cup [str : {FALSE}, val : SeqsUpTo(Texts, MaxTexts)]

Returned(v) == [kind |-> "return", exc |-> "", text |-> << >>, limit |-> 0,
                value |-> v]
Raised(e, t, l) == [kind |-> "raise", exc |-> e, text |-> t, limit |-> l,
                    value |-> << >>]

\* a faulty variant of line 76: the comparison off by one
TooLongByTwo(tokens, context_length) == Len(tokens) > context_length + 1

\* line 76
TooLong(tokens, context_length) == Len(tokens) > context_length

\* a faulty variant of lines 78-79: line 79 left out
TruncateOnly(tokens, context_length) ==
  [j \in 1..context_length |-> tokens[j]]

\* lines 78-79: tokens[:context_length] with the last entry overwritten
TruncateTokens(tokens, context_length) ==
  [j \in 1..context_length |->
     IF j = context_length THEN eot_token ELSE tokens[j]]

\* a faulty variant of line 84: the slice one entry short
PadRowShort(tokens, context_length) ==
  [j \in 1..context_length |-> IF j < Len(tokens) THEN tokens[j] ELSE 0]

\* line 84 on a row of zeros (line 73)
PadRow(tokens, context_length) ==
  [j \in 1..context_length |-> IF j <= Len(tokens) THEN tokens[j] ELSE 0]

\* the outcome of one pass of the loop of lines 75-84 for text i
RowOutcome(texts, i, context_length, truncate) ==
  LET tokens == <<sot_token>> \o Encode(texts[i]) \o <<eot_token>>
  IN  IF TooLong(tokens, context_length)
      THEN IF truncate
           THEN \* tokens[-1] = ... on the empty list tokens[:0]
                IF context_length = 0 THEN Raised("IndexError", << >>, 0)
                ELSE Returned(PadRow(TruncateTokens(tokens, context_length),
                                     context_length))
           ELSE Raised("RuntimeError", texts[i], context_length)
      ELSE Returned(PadRow(tokens, context_length))

Min(S) == CHOOSE m \in S : \A n \in S : m <= n

\* lines 66-67
TextList(arg) == IF arg.str THEN <<arg.val>> ELSE arg.val

tokenize(arg, context_length, truncate) ==
  LET texts  == TextList(arg)
      rows   == [i \in 1..Len(texts) |->
                   RowOutcome(texts, i, context_length, truncate)]
      failed == {i \in 1..Len(texts) : rows[i].kind = "raise"}
  IN  IF failed /= {} THEN rows[Min(failed)]
      ELSE Returned([i \in 1..Len(texts) |-> rows[i].value])


(***************************************************************************)
(* The data both datasets read.  The LMDB store and the files on disk are  *)
(* external; they hold MaxRecords records, record i with an image of size  *)
(* ImgSizeOf(i) and NumSentsOf(i) sentences.                               *)
(***************************************************************************)
MaxRecords == 3
MaxSents == 3
InputSize == 4
WordLength == 4
MaxAug == 1

info ==
  "refcoco" :> ("train" :> 42404 @@ "val" :> 3811 @@ "val-test" :> 3811
                @@ "testA" :> 1975 @@ "testB" :> 1810)
  @@ "refcoco+" :> ("train" :> 42278 @@ "val" :> 3805 @@ "val-test" :> 3805
                    @@ "testA" :> 1975 @@ "testB" :> 1798)
  @@ "refcocog_u" :> ("train" :> 42226 @@ "val" :> 2573 @@ "val-test" :> 2573
                      @@ "test" :> 5023)
  @@ "refcocog_g" :> ("train" :> 44822 @@ "val" :> 5000 @@ "val-test" :> 5000)

Modes == {"train", "val", "test", "other"}
SelectTypes == {"random", "first", "bogus"}

NumSentsOf(i) == ((i - 1) % MaxSents) + 1
SentsOf(i) ==
  [j \in 1..NumSentsOf(i) |->
     [k \in 1..j |-> ((i + j + k) % NumWords) + 1]]
ImgSizeOf(i) == <<i + 1, 2 * i>>
SegIdOf(i) == 1000 + i

\* an encoded image or mask buffer, and what cv2.imdecode / cv2.imread make
\* of it: the pixels of record i's picture, of shape ImgSizeOf(i)
Decoded(what, i) == [what |-> what, rec |-> i, shape |-> ImgSizeOf(i)]

KeyName(i) == <<"key", i>>
StoreKeys == [i \in 1..MaxRecords |-> KeyName(i)]

\* the deserialized value of the store entry of the i-th key
StoreRecord(i) ==
  [img |-> i, mask |-> i, seg_id |-> SegIdOf(i),
   num_sents |-> NumSentsOf(i), sents |-> SentsOf(i)]

\* the deserialized values of the reserved entries __len__ and __keys__
StoreLen == MaxRecords

\* json.load of the manifest
Manifest ==
  [i \in 1..MaxRecords |->
     [img_path |-> i, mask_path |-> i,
      num_sents |-> NumSentsOf(i), sents |-> SentsOf(i)]]

(***************************************************************************)
(* Pixels are not modelled: an array is the record of how it was made.     *)
(***************************************************************************)
\* cv2.warpAffine(img, mat, self.input_size, flags, borderValue)
warpAffine(img, mat, dsize, flags, border) ==
  [of |-> img, mat |-> mat, dsize |-> dsize, flags |-> flags,
   border |-> border, aug |-> 0, div255 |-> FALSE]

\* the albumentations pipeline with random outcome r; outcome 0 leaves the
\* array as it is
Augment(x, r) == [x EXCEPT !.aug = r]

\* convert(img, mask): the image is normalised, the mask only cast
convertImg(img) == [px |-> img, normalized |-> TRUE]
convertMask(mask) == [px |-> mask, normalized |-> FALSE]

ItemReturned(v) == [kind |-> "return", exc |-> "", value |-> v]
ItemRaised(e) == [kind |-> "raise", exc |-> e, value |-> << >>]

\* the transforms of the records' images for the configured input size
TransformOf ==
  [i \in 1..MaxRecords |->
     getTransformMat(ImgSizeOf(i), <<InputSize, InputSize>>, TRUE)]

\* lines 149-155 and 323-329: the image warped into the canvas
WarpedImg(img, mat) ==
  warpAffine(img, mat, <<InputSize, InputSize>>, "INTER_CUBIC", "mean")

\* lines 158-165 and 332-338: the mask warped with the same matrix, over 255
WarpedMask(mask, mat) ==
  [warpAffine(mask, mat, <<InputSize, InputSize>>, "INTER_LINEAR", "zero")
     EXCEPT !.div255 = TRUE]

\* tokenize(sent, self.word_length, True).squeeze(0)
WordVec(sent) == tokenize([str |-> TRUE, val |-> sent], WordLength, TRUE)

\* lines 156 and 330
IsTrain(mode) == mode = "train"

\* a faulty variant of lines 171 and 349: the test split packaged as val
IsValOrTest(mode) == mode \in {"val", "test"}

\* lines 171 and 349
IsVal(mode) == mode = "val"

\* a faulty variant of lines 173 and 351: the drawn sentence
DrawnSentence(sents, idx) == sents[idx + 1]

\* lines 173 and 351: sent = sents[0], whatever idx is
ValSentence(sents, idx) == sents[1]

\* RefDataset.__getitem__, lines 136-193, for the fetched record i, the
\* drawn sentence index idx (0-based)
RefSample(i, mode, mask_dir, idx) ==
  LET ref       == StoreRecord(i)
      ori_img   == Decoded("img", ref.img)
      img_size  == ori_img.shape
      seg_id    == ref.seg_id
      mask_path == <<mask_dir, seg_id, ".png">>
      sents     == ref.sents
      mat       == TransformOf[i][1]
      mat_inv   == TransformOf[i][2]
      img       == WarpedImg(ori_img, mat)
  IN  IF IsTrain(mode)
      THEN LET mask     == WarpedMask(Decoded("mask", ref.mask), mat)
               word_vec == WordVec(sents[idx + 1])
           IN  IF word_vec.kind = "raise" THEN ItemRaised(word_vec.exc)
               ELSE ItemReturned(<<convertImg(img), word_vec.value[1],
                                   convertMask(mask)>>)
      ELSE IF IsVal(mode)
      THEN LET word_vec == WordVec(ValSentence(sents, idx))
           IN  IF word_vec.kind = "raise" THEN ItemRaised(word_vec.exc)
               ELSE ItemReturned(<<convertImg(img), word_vec.value[1],
                                   [mask_path |-> mask_path,
                                    inverse |-> mat_inv,
                                    ori_size |-> img_size]>>)
      ELSE ItemReturned(<<convertImg(img),
                          [ori_img |-> ori_img, seg_id |-> seg_id,
                           mask_path |-> mask_path, inverse |-> mat_inv,
                           ori_size |-> img_size, sents |-> sents]>>)

\* a faulty variant of lines 314-320: an unknown policy treated as 'first'
SelectIdxDefault(sents_select_type, r) ==
  IF sents_select_type = "random" THEN r ELSE 0

\* lines 314-320: the sentence index for the drawn value r, or the failed
\* assertion (-1)
SelectIdx(sents_select_type, r) ==
  IF sents_select_type = "random" THEN r
  ELSE IF sents_select_type = "first" THEN 0
  ELSE -1

\* EndoVisDataset.__getitem__, lines 306-371, for manifest entry i, the drawn
\* sentence index r and the augmentation outcome a
EndoSample(i, mode, sents_select_type, use_vis_aug, data_root, r, a) ==
  LET ref       == Manifest[i]
      ori_img   == Decoded("img", ref.img_path)
      img_size  == ori_img.shape
      mask_path == <<data_root, ref.mask_path>>
      idx       == SelectIdx(sents_select_type, r)
      sents     == ref.sents
      mat       == TransformOf[i][1]
      mat_inv   == TransformOf[i][2]
      img       == WarpedImg(ori_img, mat)
  IN  IF idx < 0 THEN ItemRaised("AssertionError")
      ELSE IF IsTrain(mode)
      THEN LET mask     == WarpedMask(Decoded("mask", ref.mask_path), mat)
               img2     == IF use_vis_aug THEN Augment(img, a) ELSE img
               mask2    == IF use_vis_aug THEN Augment(mask, a) ELSE mask
               word_vec == WordVec(sents[idx + 1])
           IN  IF word_vec.kind = "raise" THEN ItemRaised(word_vec.exc)
               ELSE ItemReturned(<<convertImg(img2), word_vec.value[1],
                                   convertMask(mask2)>>)
      ELSE IF IsVal(mode)
      THEN LET word_vec == WordVec(ValSentence(sents, idx))
           IN  IF word_vec.kind = "raise" THEN ItemRaised(word_vec.exc)
               ELSE ItemReturned(<<convertImg(img), word_vec.value[1],
                                   [mask_path |-> mask_path,
                                    inverse |-> mat_inv,
                                    ori_size |-> img_size]>>)
      ELSE ItemReturned(<<convertImg(img),
                          [ori_img |-> ori_img, seg_id |-> 0,
                           mask_path |-> mask_path, inverse |-> mat_inv,
                           ori_size |-> img_size, sents |-> sents]>>)


(***************************************************************************)
(* State.                                                                  *)
(*   tk, geo   one call of tokenize / getTransformMat: arguments, result   *)
(*   cfg       the constructor arguments of the dataset object             *)
(*   env, length, keys                                                     *)
(*             the fields of a RefDataset (env 0 is None, n > 0 the handle *)
(*             the n-th lmdb.open returned; keys.set is whether the        *)
(*             attribute exists)                                           *)
(*   opens     how many times the store was opened                         *)
(*   item, prev  the last __getitem__ call (index, the values the random   *)
(*             source gave it, outcome) and the one before it              *)
(*   lenret    the last __len__ call                                       *)
(*   thr       the threads inside __getitem__ on one RefDataset            *)
(***************************************************************************)
VARIABLES tk, geo, cfg, env, length, keys, opens, item, prev, lenret, thr

vars == <<tk, geo, cfg, env, length, keys, opens, item, prev, lenret, thr>>

TkIdle == [pc |-> "idle", arg |-> [str |-> TRUE, val |-> << >>],
           context_length |-> 0, truncate |-> FALSE, ret |-> Returned(<< >>)]
GeoIdle == [pc |-> "idle", img_size |-> <<1, 1>>, input_size |-> 1,
            inverse |-> FALSE, locals |-> None, ret |-> None]
NoCfg == [cls |-> "none", dataset |-> "", split |-> "", mode |-> "",
          sents_select_type |-> "", use_vis_aug |-> FALSE]
NoItem == [called |-> FALSE, index |-> 0, idx |-> 0, aug |-> 0,
           out |-> ItemRaised("")]
NoLen == [called |-> FALSE, value |-> 0]
KeysUnset == [set |-> FALSE, val |-> << >>]

DataIdle ==
  /\ cfg = NoCfg /\ env = 0 /\ length = 0 /\ keys = KeysUnset /\ opens = 0
  /\ item = NoItem /\ prev = NoItem /\ lenret = NoLen
NoThreads == thr = << >>

dataVars == <<cfg, env, length, keys, opens, item, prev, lenret>>

(***************************************************************************)
(* tokenize, called once on arguments drawn from bounded sets.             *)
(***************************************************************************)
InitTok ==
  /\ tk \in [pc : {"call"}, arg : TextArgs, context_length : 0..MaxCtx,
             truncate : BOOLEAN, ret : {Returned(<< >>)}]
  /\ geo = GeoIdle /\ DataIdle /\ NoThreads

TokCall ==
  /\ tk.pc = "call"
  /\ tk' = [tk EXCEPT !.pc = "done",
                      !.ret = tokenize(tk.arg, tk.context_length, tk.truncate)]
  /\ UNCHANGED <<geo, dataVars, thr>>

NextTok == TokCall

SpecTok == InitTok /\ [][NextTok]_vars

(***************************************************************************)
(* getTransformMat, called once on sizes drawn from bounded sets: small    *)
(* sizes, the sizes of the specification's worked example, and one image   *)
(* far longer than wide.                                                   *)
(***************************************************************************)
MaxDim == 5
MaxSize == 4
ExtremeDim == 2 ^ 26

Dims == (1..MaxDim) \cup {11, 100, 200, ExtremeDim}
Sizes == (1..MaxSize) \cup {50}

\* lines 106 and 266: self.input_size = (input_size, input_size)
SquareOf(input_size) == <<input_size, input_size>>

InitGeo ==
  /\ geo \in [pc : {"call"}, img_size : Dims \X Dims, input_size : Sizes,
              inverse : BOOLEAN, locals : {None}, ret : {None}]
  /\ tk = TkIdle /\ DataIdle /\ NoThreads

GeoCall ==
  /\ geo.pc = "call"
  /\ geo' = [geo EXCEPT
                !.pc = "done",
                !.locals = TransformLocals(geo.img_size, SquareOf(geo.input_size)),
                !.ret = getTransformMat(geo.img_size, SquareOf(geo.input_size),
                                        geo.inverse)]
  /\ UNCHANGED <<tk, dataVars, thr>>

NextGeo == GeoCall

SpecGeo == InitGeo /\ [][NextGeo]_vars

(***************************************************************************)
(* One dataset object used by one caller: any sequence of __getitem__ and  *)
(* __len__ calls.                                                          *)
(***************************************************************************)
RefConfigs ==
  {[cls |-> "RefDataset", dataset |-> d, split |-> s, mode |-> m,
    sents_select_type |-> "", use_vis_aug |-> FALSE] :
     d \in DOMAIN info, s \in {"train", "val", "val-test"}, m \in Modes}

EndoConfigs ==
  [cls : {"EndoVisDataset"}, dataset : {""}, split : {""}, mode : Modes,
   sents_select_type : SelectTypes, use_vis_aug : BOOLEAN]

\* RefDataset.__init__ (lines 112-113) and EndoVisDataset.__init__
Constructed(c) ==
  /\ cfg = c
  /\ env = 0
  /\ length = IF c.cls = "RefDataset" THEN info[c.dataset][c.split] ELSE 0
  /\ keys = KeysUnset
  /\ opens = 0
  /\ item = NoItem /\ prev = NoItem /\ lenret = NoLen

InitData ==
  /\ \E c \in RefConfigs \cup EndoConfigs : Constructed(c)
  /\ tk = TkIdle /\ geo = GeoIdle /\ NoThreads

\* a faulty variant of line 131: the store opened on every access
AlwaysInit(e) == TRUE

\* line 131
NeedInit(e) == e = 0

\* _init_db, lines 116-124: the fields after it ran
init_db(n) ==
  [env |-> n + 1, length |-> StoreLen,
   keys |-> [set |-> TRUE, val |-> StoreKeys]]

\* lines 133-193 on the fields f: self.keys[index], the fetch, the sample
RefFetch(f, index, mode, r) ==
  IF ~f.keys.set THEN ItemRaised("AttributeError")
  ELSE IF index >= Len(f.keys.val) THEN ItemRaised("IndexError")
  ELSE RefSample(f.keys.val[index + 1][2], mode, "mask_dir", r)

\* the values np.random.choice(num_sents) can give for record index
Draws(index) ==
  IF index < MaxRecords THEN 0..(NumSentsOf(index + 1) - 1) ELSE {0}

RefGetItem(index, r) ==
  /\ cfg.cls = "RefDataset"
  /\ LET f == IF NeedInit(env) THEN init_db(opens)
              ELSE [env |-> env, length |-> length, keys |-> keys]
     IN  /\ env' = f.env
         /\ length' = f.length
         /\ keys' = f.keys
         /\ opens' = IF NeedInit(env) THEN opens + 1 ELSE opens
         /\ item' = [called |-> TRUE, index |-> index, idx |-> r, aug |-> 0,
                     out |-> RefFetch(f, index, cfg.mode, r)]
  /\ prev' = item
  /\ UNCHANGED <<cfg, lenret, tk, geo, thr>>

\* RefDataset.__len__
RefLen ==
  /\ cfg.cls = "RefDataset"
  /\ lenret' = [called |-> TRUE, value |-> length]
  /\ UNCHANGED <<cfg, env, length, keys, opens, item, prev, tk, geo, thr>>

EndoGetItem(index, r, a) ==
  /\ cfg.cls = "EndoVisDataset"
  /\ item' = [called |-> TRUE, index |-> index, idx |-> r, aug |-> a,
              out |-> IF index >= Len(Manifest) THEN ItemRaised("IndexError")
                      ELSE EndoSample(index + 1, cfg.mode,
                                      cfg.sents_select_type, cfg.use_vis_aug,
                                      "data_root", r, a)]
  /\ prev' = item
  /\ UNCHANGED <<cfg, env, length, keys, opens, lenret, tk, geo, thr>>

\* EndoVisDataset.__len__
EndoLen ==
  /\ cfg.cls = "EndoVisDataset"
  /\ lenret' = [called |-> TRUE, value |-> Len(Manifest)]
  /\ UNCHANGED <<cfg, env, length, keys, opens, item, prev, tk, geo, thr>>

Indexes == 0..MaxRecords

NextData ==
  \/ \E index \in Indexes : \E r \in Draws(index) : RefGetItem(index, r)
  \/ RefLen
  \/ \E index \in Indexes :
       \E r \in (IF cfg.sents_select_type = "random" THEN Draws(index)
                 ELSE {0}) :
         \E a \in (IF cfg.mode = "train" /\ cfg.use_vis_aug
                      /\ cfg.sents_select_type /= "bogus"
                      /\ index < MaxRecords
                   THEN 0..MaxAug ELSE {0}) :
           EndoGetItem(index, r, a)
  \/ EndoLen

SpecData == InitData /\ [][NextData]_vars

(***************************************************************************)
(* Several threads of one process, each inside one __getitem__ call on the *)
(* same RefDataset; a thread can be preempted between any two statements.  *)
(* thr[t].pc is the line thread t is about to execute.                     *)
(***************************************************************************)
MaxThreads == 2

Threads == 1..MaxThreads

RaceConfigs == {c \in RefConfigs : c.dataset = "refcoco" /\ c.split = "train"}

InitRace ==
  /\ \E c \in RaceConfigs : Constructed(c)
  /\ thr \in [Threads -> [pc : {"line131"}, index : 0..(MaxRecords - 1),
                          idx : {0}, out : {ItemRaised("")}]]
  /\ tk = TkIdle /\ geo = GeoIdle

\* line 131: if self.env is None
CheckEnv(t) ==
  /\ thr[t].pc = "line131"
  /\ thr' = [thr EXCEPT ![t].pc = IF NeedInit(env) THEN "line116" ELSE "line133"]
  /\ UNCHANGED <<dataVars, tk, geo>>

\* lines 116-121: self.env = lmdb.open(...)
OpenEnv(t) ==
  /\ thr[t].pc = "line116"
  /\ env' = init_db(opens).env
  /\ opens' = opens + 1
  /\ thr' = [thr EXCEPT ![t].pc = "line123"]
  /\ UNCHANGED <<cfg, length, keys, item, prev, lenret, tk, geo>>

\* lines 122-123: self.length = loads_pyarrow(txn.get(b'__len__'))
SetLength(t) ==
  /\ thr[t].pc = "line123"
  /\ length' = init_db(opens).length
  /\ thr' = [thr EXCEPT ![t].pc = "line124"]
  /\ UNCHANGED <<cfg, env, keys, opens, item, prev, lenret, tk, geo>>

\* line 124: self.keys = loads_pyarrow(txn.get(b'__keys__'))
SetKeys(t) ==
  /\ thr[t].pc = "line124"
  /\ keys' = init_db(opens).keys
  /\ thr' = [thr EXCEPT ![t].pc = "line133"]
  /\ UNCHANGED <<cfg, env, length, opens, item, prev, lenret, tk, geo>>

\* lines 133-193, r the value line 146 draws
Fetch(t, r) ==
  /\ thr[t].pc = "line133"
  /\ thr' = [thr EXCEPT
               ![t].pc = "done",
               ![t].idx = r,
               ![t].out = RefFetch([env |-> env, length |-> length,
                                    keys |-> keys],
                                   thr[t].index, cfg.mode, r)]
  /\ UNCHANGED <<dataVars, tk, geo>>

NextRace ==
  \E t \in Threads :
    \/ CheckEnv(t)
    \/ OpenEnv(t)
    \/ SetLength(t)
    \/ SetKeys(t)
    \/ \E r \in Draws(thr[t].index) : Fetch(t, r)

SpecRace == InitRace /\ [][NextRace]_vars


(***************************************************************************)
(* Properties of tokenize (SpecTok).  L is the context length of the call, *)
(* and a text is over-long when its encoded length plus 2 exceeds L.       *)
(***************************************************************************)
TkTexts == TextList(tk.arg)

OverLong(text, L) == Len(Encode(text)) + 2 > L

\* the rows of a returned result all have L entries, and the row of an
\* over-long text has the end-token in its last entry
RowsEndAtL(L) ==
  /\ tk.ret.kind = "return"
  /\ \A i \in 1..Len(TkTexts) :
       /\ Len(tk.ret.value[i]) = L
       /\ OverLong(TkTexts[i], L) => tk.ret.value[i][L] = eot_token

\* C4, as stated: tokenize(text, L, truncate=True) returns, for any text and
\* any context length L, a sequence of exactly L entries, and when the text
\* is over-long the entry at position L-1 is the end-token.
C4_AnyLength ==
  (tk.pc = "done" /\ tk.truncate) => RowsEndAtL(tk.context_length)

\* C4, amended: the same for any context length L >= 1 (with L = 0 the call
\* raises IndexError: line 79 assigns to the last entry of an empty list).
C4_PositiveLength ==
  (tk.pc = "done" /\ tk.truncate /\ tk.context_length >= 1)
    => RowsEndAtL(tk.context_length)

\* a truncating call on an over-long text has returned
C4_Witness ==
  /\ tk.pc = "done" /\ tk.truncate /\ tk.context_length >= 1
  /\ \E i \in 1..Len(TkTexts) : OverLong(TkTexts[i], tk.context_length)
  /\ tk.ret.kind = "return"

FirstOverLong(texts, L) ==
  texts[Min({i \in 1..Len(texts) : OverLong(texts[i], L)})]

\* C5: tokenize(text, L, truncate=False) fails, for any over-long text, with
\* a length error (RuntimeError) that names the offending text and the limit
\* L; no sequence is returned, and one over-long text in a list makes the
\* whole call fail.
C5_LengthError ==
  (/\ tk.pc = "done" /\ ~tk.truncate
   /\ \E i \in 1..Len(TkTexts) : OverLong(TkTexts[i], tk.context_length))
    => /\ tk.ret.kind = "raise"
       /\ tk.ret.exc = "RuntimeError"
       /\ tk.ret.text = FirstOverLong(TkTexts, tk.context_length)
       /\ tk.ret.limit = tk.context_length
       /\ tk.ret.value = << >>

\* a non-truncating call on a list of two texts, the first fitting and the
\* second over-long, has failed
C5_Witness ==
  /\ tk.pc = "done" /\ ~tk.truncate /\ ~tk.arg.str /\ Len(TkTexts) = 2
  /\ ~OverLong(TkTexts[1], tk.context_length)
  /\ OverLong(TkTexts[2], tk.context_length)
  /\ tk.ret.kind = "raise"

\* row is: start-token, the first n ids of the text, end-token, zeros
Layout(row, text, n, L) ==
  /\ Len(row) = L
  /\ n + 2 <= L
  /\ row[1] = sot_token
  /\ \A k \in 1..n : row[1 + k] = Encode(text)[k]
  /\ row[n + 2] = eot_token
  /\ \A k \in (n + 3)..L : row[k] = 0

EmptyText == [str |-> TRUE, val |-> << >>]

\* C6, as stated: every returned row holds the start-token at position 0,
\* then the encoded ids of the text in order, then the end-token, then
\* zeros; and tokenize("", L, truncate=False) returns start-token,
\* end-token, zeros.
C6_Layout ==
  tk.pc = "done" =>
    /\ tk.ret.kind = "return" =>
         \A i \in 1..Len(TkTexts) :
           Layout(tk.ret.value[i], TkTexts[i], Len(TkTexts[i]),
                  tk.context_length)
    /\ (tk.arg = EmptyText /\ ~tk.truncate) =>
         /\ tk.ret.kind = "return"
         /\ Layout(tk.ret.value[1], << >>, 0, tk.context_length)

\* C6, amended: for L >= 2 every returned row holds the start-token, then
\* the encoded ids of the text in order (all of them, or the first L - 2
\* when the text was truncated), then the end-token, then zeros; and
\* tokenize("", L, truncate=False) returns start-token, end-token, zeros.
C6_LayoutFromTwo ==
  (tk.pc = "done" /\ tk.context_length >= 2) =>
    /\ tk.ret.kind = "return" =>
         \A i \in 1..Len(TkTexts) :
           Layout(tk.ret.value[i], TkTexts[i],
                  IF OverLong(TkTexts[i], tk.context_length)
                  THEN tk.context_length - 2 ELSE Len(TkTexts[i]),
                  tk.context_length)
    /\ (tk.arg = EmptyText /\ ~tk.truncate) =>
         /\ tk.ret.kind = "return"
         /\ Layout(tk.ret.value[1], << >>, 0, tk.context_length)

\* a call has returned a row with an id of the text, the end-token and
\* padding behind it
C6_Witness ==
  /\ tk.pc = "done" /\ tk.ret.kind = "return" /\ tk.context_length >= 2
  /\ \E i \in 1..Len(TkTexts) :
       /\ Len(TkTexts[i]) >= 1
       /\ Len(TkTexts[i]) + 2 < tk.context_length


(***************************************************************************)
(* Properties of getTransformMat (SpecGeo).  H, W are the original height  *)
(* and width, S the target size; points are <<x, y>>.                      *)
(***************************************************************************)
GeoS == FromInt(geo.input_size)

Corner(x, y) == <<FromInt(x), FromInt(y)>>

Corners ==
  {Corner(0, 0), Corner(geo.img_size[2], 0), Corner(0, geo.img_size[1]),
   Corner(geo.img_size[2], geo.img_size[1])}

\* |x - y| <= tol
Within(x, y, tol) == DLe(DAbs(DSub(x, y)), tol)

PointWithin(p, q, tol) == Within(p[1], q[1], tol) /\ Within(p[2], q[2], tol)

RoundTrip(p) == Apply(geo.ret[2], Apply(geo.ret[1], p))

\* the three destination points are not collinear
DstSpansPlane == DSign(AffineDet(geo.locals.dst)) /= 0

\* the largest rounding error allowed on a coordinate of a round trip
RoundTripTol ==
  DScale(FromInt(IF geo.img_size[1] > geo.img_size[2]
                 THEN geo.img_size[1] ELSE geo.img_size[2]), -50)

\* C9: with inverse=True, for all positive sizes (H, W) and S, the forward
\* transform followed by the inverse transform reproduces each of the four
\* original corner points (0,0), (W,0), (0,H), (W,H), here up to a rounding
\* error of max(H, W) * 2^-50 on each coordinate; with inverse=False the
\* second result is None.
C9_RoundTrip ==
  geo.pc = "done" =>
    IF geo.inverse
    THEN \A p \in Corners : PointWithin(RoundTrip(p), p, RoundTripTol)
    ELSE geo.ret[2] = None

\* What does hold of the round trip: it reproduces the corners up to
\* rounding whenever the three float32 destination points of line 204 are
\* not collinear.
RoundTripUnlessCollapsed ==
  (geo.pc = "done" /\ geo.inverse /\ DstSpansPlane) =>
    \A p \in Corners : PointWithin(RoundTrip(p), p, RoundTripTol)

\* the locals of the call for a 100 x 200 image and target size 50
WorkedExample ==
  (geo.img_size = <<100, 200>> /\ geo.input_size = 50) =>
    /\ geo.locals.scale = Dyadic(FALSE, <<1>>, -2)
    /\ geo.locals.new_h = FromInt(25)
    /\ geo.locals.new_w = FromInt(50)
    /\ geo.locals.bias_x = Zero
    /\ geo.locals.bias_y = Dyadic(FALSE, <<25>>, -1)

\* the points the corners (0,0), (W,0), (0,H) are to map to
Targets(l) ==
  <<<<l.bias_x, l.bias_y>>, <<FAdd(l.new_w, l.bias_x), l.bias_y>>,
    <<l.bias_x, FAdd(l.new_h, l.bias_y)>>>>

SourceCorners ==
  <<Corner(0, 0), Corner(geo.img_size[2], 0), Corner(0, geo.img_size[1])>>

\* C10, as stated: new_h <= S and new_w <= S with one of them equal to S;
\* both biases >= 0 with one of them 0; the padding S - new of each axis is
\* split evenly on both sides; the corners (0,0), (W,0), (0,H) map to
\* (bias_x, bias_y), (new_w + bias_x, bias_y), (bias_x, new_h + bias_y);
\* and H=100, W=200, S=50 gives scale 0.25, new_h 25, new_w 50, bias_x 0,
\* bias_y 12.5.
C10_ExactGeometry ==
  geo.pc = "done" =>
    LET l == geo.locals
    IN  /\ DLe(l.new_h, GeoS) /\ DLe(l.new_w, GeoS)
        /\ l.new_h = GeoS \/ l.new_w = GeoS
        /\ DSign(l.bias_x) >= 0 /\ DSign(l.bias_y) >= 0
        /\ DSign(l.bias_x) = 0 \/ DSign(l.bias_y) = 0
        /\ DAdd(DAdd(l.bias_x, l.new_w), l.bias_x) = GeoS
        /\ DAdd(DAdd(l.bias_y, l.new_h), l.bias_y) = GeoS
        /\ \A k \in 1..3 : Apply(geo.ret[1], SourceCorners[k]) = Targets(l)[k]
        /\ WorkedExample

\* C10, amended: the same up to floating-point rounding.  With e = S * 2^-51:
\* new_h <= S + e and new_w <= S + e with one of them within e of S; both
\* biases >= -e with one of them within e of 0; on each axis bias + new +
\* bias is within e of S; the corners (0,0), (W,0), (0,H) map to within
\* S * 2^-23 (the points are cast to float32) of (bias_x, bias_y),
\* (new_w + bias_x, bias_y), (bias_x, new_h + bias_y); and H=100, W=200,
\* S=50 gives exactly scale 0.25, new_h 25, new_w 50, bias_x 0, bias_y 12.5.
C10_GeometryWithinRounding ==
  geo.pc = "done" =>
    LET l == geo.locals
        e == DScale(GeoS, -51)
    IN  /\ DLe(l.new_h, DAdd(GeoS, e)) /\ DLe(l.new_w, DAdd(GeoS, e))
        /\ Within(l.new_h, GeoS, e) \/ Within(l.new_w, GeoS, e)
        /\ DLe(DNeg(e), l.bias_x) /\ DLe(DNeg(e), l.bias_y)
        /\ Within(l.bias_x, Zero, e) \/ Within(l.bias_y, Zero, e)
        /\ Within(DAdd(DAdd(l.bias_x, l.new_w), l.bias_x), GeoS, e)
        /\ Within(DAdd(DAdd(l.bias_y, l.new_h), l.bias_y), GeoS, e)
        /\ \A k \in 1..3 :
             PointWithin(Apply(geo.ret[1], SourceCorners[k]), Targets(l)[k],
                         DScale(GeoS, -23))
        /\ WorkedExample

\* the call of the worked example has returned, with padding on the y axis
C10_Witness ==
  /\ geo.pc = "done"
  /\ geo.img_size = <<100, 200>> /\ geo.input_size = 50
  /\ geo.locals.bias_y = Dyadic(FALSE, <<25>>, -1)
  /\ geo.locals.bias_x = Zero


(***************************************************************************)
(* Properties of the datasets used by one caller (SpecData).               *)
(***************************************************************************)
IsRef == cfg.cls = "RefDataset"
IsEndo == cfg.cls = "EndoVisDataset"

\* the index of the last access names a record
ValidIndex(it) == it.index < MaxRecords

\* C1: construction leaves env None and length equal to info[dataset][split];
\* the first __getitem__ opens the store and overwrites length and keys from
\* the entries __len__ and __keys__; over any later __getitem__ and __len__
\* calls the store is not opened again and env, length and keys stay as they
\* are; __len__ returns the current length.
C1_LazyOpen ==
  /\ [](IsRef =>
          IF item.called
          THEN /\ env /= 0 /\ opens = 1
               /\ length = StoreLen
               /\ keys = [set |-> TRUE, val |-> StoreKeys]
          ELSE /\ env = 0 /\ opens = 0
               /\ length = info[cfg.dataset][cfg.split]
               /\ ~keys.set)
  /\ [][env /= 0 => UNCHANGED <<env, length, keys, opens>>]_vars
  /\ [][(IsRef /\ lenret' /= lenret) => lenret'.value = length]_vars

\* two accesses and a __len__ call have been made on a RefDataset
C1_Witness ==
  /\ IsRef /\ item.called /\ prev.called /\ lenret.called
  /\ lenret.value = StoreLen /\ opens = 1

TrainFields == {"px", "normalized"}
ValFields == {"mask_path", "inverse", "ori_size"}
TestFields == {"ori_img", "seg_id", "mask_path", "inverse", "ori_size", "sents"}

IsImageTensor(x) ==
  DOMAIN x = TrainFields /\ x.normalized /\ x.px.of.what = "img"

IsMaskTensor(x) ==
  DOMAIN x = TrainFields /\ ~x.normalized /\ x.px.of.what = "mask"

IsTextTensor(x) == Len(x) = WordLength

\* an access that fails neither on its index nor on the selection policy
Served == ValidIndex(item) /\ (IsEndo => cfg.sents_select_type /= "bogus")

\* C3: in both datasets mode 'train' returns (image_tensor, text_tensor,
\* mask_tensor); mode 'val' returns (image_tensor, text_tensor, bundle) with
\* the bundle's fields exactly mask_path, inverse, ori_size; every other
\* mode returns (image_tensor, bundle) with the bundle's fields exactly
\* ori_img, seg_id, mask_path, inverse, ori_size, sents, and seg_id 0 in
\* the manifest-backed dataset; no mode value is rejected.
C3_ModeContract ==
  (item.called /\ Served) =>
    /\ item.out.kind = "return"
    /\ LET v == item.out.value
       IN  /\ IsImageTensor(v[1])
           /\ IF cfg.mode = "train"
              THEN Len(v) = 3 /\ IsTextTensor(v[2]) /\ IsMaskTensor(v[3])
              ELSE IF cfg.mode = "val"
              THEN Len(v) = 3 /\ IsTextTensor(v[2]) /\ DOMAIN v[3] = ValFields
              ELSE /\ Len(v) = 2 /\ DOMAIN v[2] = TestFields
                   /\ IsEndo => v[2].seg_id = 0
                   /\ IsRef => v[2].seg_id = SegIdOf(item.index + 1)

\* an access in a mode that is none of train, val, test has returned the
\* test package
C3_Witness ==
  /\ item.called /\ Served /\ cfg.mode = "other" /\ IsEndo
  /\ item.out.kind = "return" /\ Len(item.out.value) = 2

\* the text tensor of sentence k (1-based) of record i
TextTensorOf(i, k) == WordVec(SentsOf(i)[k]).value[1]

\* C7: in the manifest-backed dataset policy 'random' draws the index from
\* [0, num_sents), policy 'first' takes index 0, and with any other policy
\* every __getitem__ call, in every mode, fails with a configuration error
\* (the failed assertion) and returns no sample.
C7_SelectionPolicy ==
  (IsEndo /\ item.called) =>
    IF cfg.sents_select_type \notin {"random", "first"}
    THEN /\ item.out.kind = "raise"
         /\ ValidIndex(item) => item.out.exc = "AssertionError"
    ELSE ValidIndex(item) =>
           /\ item.out.kind = "return"
           /\ item.idx \in 0..(NumSentsOf(item.index + 1) - 1)
           /\ cfg.sents_select_type = "first" => item.idx = 0
           /\ cfg.mode = "train" =>
                item.out.value[2] = TextTensorOf(item.index + 1, item.idx + 1)

\* an access with an unknown policy in val mode has failed
C7_Witness ==
  /\ IsEndo /\ item.called /\ ValidIndex(item)
  /\ cfg.sents_select_type = "bogus" /\ cfg.mode = "val"
  /\ item.out = ItemRaised("AssertionError")

\* the last two accesses asked for the same record
SameIndexTwice ==
  item.called /\ prev.called /\ item.index = prev.index /\ ValidIndex(item)

\* in val mode the two accesses gave the same outcome, and a returned text
\* tensor is that of the record's first sentence
ValDeterministic ==
  (SameIndexTwice /\ cfg.mode = "val") =>
    /\ item.out = prev.out
    /\ item.out.kind = "return" =>
         item.out.value[2] = TextTensorOf(item.index + 1, 1)

SameImageAndMask ==
  /\ item.out.value[1] = prev.out.value[1]
  /\ item.out.value[3] = prev.out.value[3]

\* C8, as stated: in val mode of either dataset the tokenized sentence is
\* the first one whatever index was drawn or selected, so two accesses with
\* the same index return identical outputs; in train mode two accesses of
\* the same index have identical image and mask tensors.
C8_Determinism ==
  /\ ValDeterministic
  /\ (SameIndexTwice /\ cfg.mode = "train" /\ Served) => SameImageAndMask

\* C8, amended: as before in val mode; in train mode two accesses of the
\* same index have identical image and mask tensors in the store-backed
\* dataset, and in the manifest-backed dataset when augmentation is off
\* (the augmentation pipeline is random).
C8_DeterminismUnlessAugmented ==
  /\ ValDeterministic
  /\ (/\ SameIndexTwice /\ cfg.mode = "train" /\ Served
      /\ IsEndo => ~cfg.use_vis_aug) => SameImageAndMask

\* two val accesses of one record drew different sentence indexes and
\* returned the same sample
C8_Witness ==
  /\ SameIndexTwice /\ Served /\ cfg.mode = "val"
  /\ item.idx /= prev.idx
  /\ item.out.kind = "return" /\ item.out = prev.out


(***************************************************************************)
(* Property of concurrent accesses (SpecRace).                             *)
(***************************************************************************)
\* C2: when several __getitem__ calls run concurrently on one RefDataset,
\* under every interleaving each call returns the sample of the record at
\* keys[index], and no call is past the test of line 131 with the handle
\* set while the key list is not yet populated.
C2_RaceSafe ==
  \A t \in Threads :
    /\ thr[t].pc = "done" =>
         thr[t].out = RefSample(thr[t].index + 1, cfg.mode, "mask_dir",
                                thr[t].idx)
    /\ (thr[t].pc = "line133" /\ env /= 0) => keys.set

====
